---- MODULE Spec2Model ----
(***************************************************************************)
(* The request dispatcher of the tarot bot (src/gpt_requests.py) and the   *)
(* two administrator operations of src/main.py that touch it               *)
(* (clear_gpt_queue, shutdown_bot), as a state machine.                    *)
(*                                                                         *)
(* The program runs on one asyncio event loop: a coroutine runs without    *)
(* interleaving from one suspension point to the next.  Every action below *)
(* is one such run.  Time is discrete: one tick is 1/TicksPerUnit of the   *)
(* time unit (the second) of the rate limiters.                            *)
(***************************************************************************)
EXTENDS Integers, Sequences, FiniteSets, TLC

\* ------------------------------------------------------------- bounds
NReq == 20           \* request identities
BurstCalls == 5      \* permits and add_request calls of SpecBurst
MaxCalls == 2        \* add_request calls in one behaviour of Spec
RateCalls == 4       \* add_request calls in one behaviour of SpecRate
MaxTicks == 2        \* single clock ticks in one behaviour of Spec
RateTicks == 4       \* single clock ticks in one behaviour of SpecRate
MaxLeaps == 1        \* half-hour jumps of the clock in one behaviour of Spec
RateLeaps == 2       \* half-hour jumps of the clock in one behaviour of SpecRate
MaxClears == 1       \* clear_gpt_queue calls in one behaviour
TicksPerUnit == 2    \* clock resolution: ticks per time unit
SeqCalls == 3        \* add_request calls in one behaviour of SpecSeq
DripCalls == 20      \* add_request calls in one behaviour of SpecDrip
DripSlack == 2       \* ticks by which the worker of SpecDrip may be resumed late
SubmitRate == 2      \* add_request calls per time unit in SpecDrip
NotifyLeaps == 2     \* half-hour jumps of the clock in one behaviour of SpecNotify
NUsers == 2          \* telegram users that send updates
MaxArgs == 2         \* positional, and keyword, arguments of a handler call
MaxRetries == 2      \* largest retries argument of error_handler
FlowCalls == 2       \* updates of one user handled in one behaviour
NDecks == 2          \* decks a daily card is drawn from
LastDay == 3         \* calendar days: 1..LastDay
NMenus == 2          \* messages with a "confirm" button for the daily card
ViewLeaps == 1       \* half-hour jumps of the clock in one behaviour of SpecView
TestLoad == 2        \* ask_gpt_in_queue tasks one load test creates (range(50))
PanelLeaps == 1      \* half-hour jumps of the clock in one behaviour of SpecPanel
PanelTests == 1      \* load tests started in one behaviour of SpecPanel

\* -------------------------------------------------- program constants
PeriodSec == 1           \* AsyncLimiter(req_per_sec, time_period=1)
PeriodHour == 3600       \* AsyncLimiter(req_per_hour, time_period=3600)
update_interval == 5     \* self.update_interval
Placeholder == 0         \* message_id=0 of the message made when send_message fails
limit == 7               \* limit = 7 of can_do_spread
QuestionLimit == 7       \* max(0, 7 - current_questions) of subscription_info_text
SubscriptionDays == 30   \* datetime.timedelta(days=30) of successful_payment_handler

Req == 1..NReq
NoReq == 0

\* The (max_tasks, req_per_sec, req_per_hour) a dispatcher is built with.
Configs == { [max_tasks |-> 1, req_per_sec |-> 1, req_per_hour |-> 2] }
RateConfigs ==
  { [max_tasks |-> 1, req_per_sec |-> 2, req_per_hour |-> 3],
    [max_tasks |-> 2, req_per_sec |-> 1, req_per_hour |-> 2] }
\* As many permits as requests, and limiters that the requests cannot exhaust.
BurstConfigs ==
  { [max_tasks |-> BurstCalls, req_per_sec |-> BurstCalls, req_per_hour |-> BurstCalls] }
\* One request per time unit, and an hour limiter that DripCalls requests
\* cannot exhaust.
DripConfigs == { [max_tasks |-> 1, req_per_sec |-> 1, req_per_hour |-> 1000] }
\* One permit, and limiters that SeqCalls requests cannot exhaust.
SeqConfigs == { [max_tasks |-> 1, req_per_sec |-> 10, req_per_hour |-> 1000] }

VARIABLES
  max_tasks,             \* constructor argument, immutable
  req_per_sec,           \* constructor argument, immutable
  req_per_hour,          \* constructor argument, immutable
  queue,                 \* self.queue._queue, head first
  unfinished_tasks,      \* self.queue._unfinished_tasks
  semaphore,             \* self.semaphore._value: free permits
  level_sec,             \* self.limiter_sec._level, in 1/(PeriodSec*TicksPerUnit) tokens
  level_hour,            \* self.limiter_hour._level, in 1/(PeriodHour*TicksPerUnit) tokens
  last_position_update,  \* self.last_position_update, in ticks
  active_requests,       \* self.active_requests
  worker_task,           \* the worker coroutine: where it is suspended, what it holds
  caller,                \* per request: the ask_gpt_in_queue / add_request coroutine
  future,                \* per request: task_request.future
  ptask,                 \* per request: the process_task task
  outcome,               \* per request: how func_to_call ended (history)
  permit,                \* per request: the semaphore permit taken for it (history)
  enqueued,              \* requests in the order of their queue.put (history)
  launched,              \* create_task(process_task) calls in order, with their time (history)
  clock,                 \* elapsed time: single ticks and leaps taken
  budget,                \* what the environment may still do: calls, ticks, leaps,
                         \* clears, and how many calls it lets overlap
  shutdown,              \* progress of shutdown_bot
  status_updater_task,   \* the periodic_status_update coroutine
  position_msg_id,       \* per request: task_request.position_msg_id
  chat,                  \* the notification sink: ids of the messages that exist
  finished,              \* per request: how _notify_finished ended (history)
  guarded,               \* one call of a handler wrapped in admin_required
  handled,               \* one call of a function wrapped in error_handler
  users,                 \* the row of table users of one telegram_id
  daily_cards,           \* the rows of table daily_cards of that telegram_id
  flow,                  \* per update of that user: the handler coroutine
  granted,               \* True returns of can_* of the day, per limit (history)
  requested,             \* ask_gpt_in_queue calls of the handlers, per limit (history)
  broadcast_mode_admins, \* the set broadcast_mode_admins of main.py
  panel                  \* what the administration handlers have done (history)

config == <<max_tasks, req_per_sec, req_per_hour>>
disp == <<queue, unfinished_tasks, semaphore, level_sec, level_hour, active_requests,
          worker_task, ptask, permit, launched>>
sink == <<status_updater_task, position_msg_id, chat, finished>>
admin == <<broadcast_mode_admins, panel>>
bot == <<guarded, handled, users, daily_cards, flow, granted, requested,
         broadcast_mode_admins, panel>>
vars == <<max_tasks, req_per_sec, req_per_hour, queue, unfinished_tasks, semaphore,
          level_sec, level_hour, last_position_update, active_requests, worker_task,
          caller, future, ptask, outcome, permit, enqueued, launched, clock, budget,
          shutdown, status_updater_task, position_msg_id, chat, finished,
          guarded, handled, users, daily_cards, flow, granted, requested,
          broadcast_mode_admins, panel>>

Max(a, b) == IF a >= b THEN a ELSE b

\* ---------------------------------------------------------------- time
\* One leap is half of the long limiter period.
LeapTicks == (PeriodHour \div 2) * TicksPerUnit

\* time.time() at construction is far more than update_interval past 0.0,
\* the initial last_position_update.
Epoch == update_interval * TicksPerUnit

\* Ticks elapsed since construction (loop.time()).
Elapsed(c) == c.ticks + c.leaps * LeapTicks

\* time.time(), in ticks.
time == Epoch + Elapsed(clock)

\* ------------------------------------------------------- AsyncLimiter
\* The level of a limiter is kept in units of 1/(time_period*TicksPerUnit)
\* token, so that the leak of one tick is max_rate units: exact arithmetic.
TokenCost(time_period) == time_period * TicksPerUnit

\* AsyncLimiter._leak over d ticks: level = max(level - elapsed * rate, 0).
Leak(level, max_rate, d) == Max(level - max_rate * d, 0)

\* (mutation of has_capacity: the level is not looked at)
has_capacity_unchecked(level, max_rate, time_period) == TRUE

\* AsyncLimiter.has_capacity(1): level + 1 <= max_rate.
has_capacity(level, max_rate, time_period) ==
  level + TokenCost(time_period) <= max_rate * TokenCost(time_period)

\* (mutation of acquire: the token taken is not added to the level)
acquire_uncounted(level, time_period) == level

\* AsyncLimiter.acquire(1) once there is capacity: level += 1.
acquire(level, time_period) == level + TokenCost(time_period)

\* --------------------------------------------------- notification sink
\* The message_id of the message bot.send_message makes for request r.
MessageId(r) == r

\* What the sink answers to an edit or a delete of the message `id`: the Bot
\* API rejects a call on a message that does not exist (TelegramBadRequest, a
\* TelegramAPIError); where the environment lets this kind of call fail, any
\* call may also end in a TelegramAPIError or in another exception.
SinkAnswers(call, id) ==
  (IF id \in chat THEN {"ok"} ELSE {"TelegramAPIError"})
     \cup (IF call \in budget.faults THEN {"TelegramAPIError", "Exception"} ELSE {})

\* What bot.send_message does: it returns the new message or raises.
SendAnswers ==
  {"ok"} \cup (IF "send_message" \in budget.faults THEN {"Exception"} ELSE {})

\* ----------------------------------------------------- update_positions
\* A pass of update_positions: its snapshot, the index of the item whose edit
\* it awaits, the edits it has issued and whether one of them failed (history).
NoRun == [snapshot |-> <<>>, idx |-> 0, pushes |-> <<>>, failed |-> FALSE]

\* snapshot = list(self.queue._queue)
StartRun(q) == [snapshot |-> q, idx |-> 0, pushes |-> <<>>, failed |-> FALSE]

\* (mutation of pos: positions are counted from 0)
pos_from_zero(idx) == idx

\* pos = idx + 1
pos(idx) == idx + 1

\* total = len(snapshot)
total(snapshot) == Len(snapshot)

\* (mutation of update_positions_goes_on: a failed edit ends the pass)
update_positions_stops_on_error(res) == res = "ok"

\* _edit_position_message swallows a TelegramAPIError and the loop body of
\* update_positions swallows any other Exception: the loop goes on to the
\* next item whatever the edit did.
update_positions_goes_on(res) == TRUE

\* One iteration of `for idx, req in enumerate(snapshot)`: the edit of the
\* position message of req has ended with res.
EditStep(run, res) ==
  [run EXCEPT
     !.pushes = Append(@, [req |-> run.snapshot[run.idx + 1], pos |-> pos(run.idx),
                           total |-> total(run.snapshot)]),
     !.failed = @ \/ res # "ok",
     !.idx = IF update_positions_goes_on(res) THEN @ + 1 ELSE Len(run.snapshot)]

\* The loop has gone through the snapshot.
RunOver(run) == run.idx = Len(run.snapshot)

\* ---------------------------------------------------------------- init
\* The dispatcher after __init__ and the first pass of the two tasks it
\* creates: the worker waits in queue.get(), periodic_status_update has gone
\* through an empty snapshot and sleeps.  No TaskRequest exists yet.
\* ------------------------------------------- handlers and the database
\* What a handler is called with: a Message or a CallbackQuery (with the
\* id of its from_user), or an object of another type.
Users == 1..NUsers
ADMIN_IDS == {1}
NoUser == 0
Other == [type |-> "other", from_user |-> NoUser]
Carriers == [type : {"Message", "CallbackQuery"}, from_user : Users]
ArgValues == Carriers \cup {Other}
ArgLists == UNION { [1..n -> ArgValues] : n \in 0..MaxArgs }

\* No answer was given, no exception was raised.
None == "None"

\* A call of a wrapped handler that has not been made: args, kwargs (the
\* values, in the order of the dictionary), whether func was awaited, and
\* the answer sent by the wrapper.
GuardedIdle(args, kwargs) ==
  [pc |-> "idle", args |-> args, kwargs |-> kwargs, func |-> FALSE,
   answer |-> [to |-> Other, show_alert |-> FALSE]]

\* How one await of the wrapped function ends: it returns its result, or
\* raises ValueError, DatabaseError (subclasses of Exception),
\* asyncio.CancelledError or SystemExit.
FuncOutcomes == {"return", "ValueError", "DatabaseError", "CancelledError", "SystemExit"}

\* A call of a function wrapped by error_handler(default_return, re_raise,
\* retries) that has not been made; outcomes[i] is how the i-th await of
\* func ends, legacy tells whether asyncio.CancelledError is a subclass of
\* Exception in the interpreter (it is before Python 3.8).
HandledIdle(default_return, re_raise, retries, outcomes, legacy) ==
  [pc |-> "idle", default_return |-> default_return, re_raise |-> re_raise,
   retries |-> retries, outcomes |-> outcomes, legacy |-> legacy,
   calls |-> 0, result |-> [kind |-> "none", value |-> None]]

\* Calendar days; datetime.date.today() is Today in every behaviour.
Days == 1..LastDay
Today == 2
NoDate == 0
Decks == 1..NDecks
NoDeck == 0
NoRow == [subscription_status |-> "none", subscription_end |-> NoDate,
          questions_count |-> 0, questions_date |-> NoDate,
          spreads_count |-> 0, spreads_date |-> NoDate]

\* The limits of the day: questions, spreads, and one daily card per deck.
Limits == {<<"question", NoDeck>>, <<"spread", NoDeck>>} \cup ({"card"} \X Decks)

\* A handler of an update that has not arrived.
Menus == 1..NMenus
NoMenu == 0
FlowIdle ==
  [pc |-> "idle", kind |-> "none", deck |-> NoDeck, message |-> NoMenu,
   spreads_count |-> 0, spreads_date |-> NoDate, subscription_end_date |-> NoDate]
Flows == 1..FlowCalls

\* What show_queue puts in its message: queue.qsize(), the number of
\* active_requests, and the queued requests in order.
Report(q, active) ==
  [queued_count |-> Len(q), active_count |-> Cardinality(active), snapshot |-> q]

\* No administration handler has run: nobody is in broadcast mode, the
\* queue was not shown, the load test was not started, no broadcast was
\* cancelled or sent.
InitPanel ==
  /\ broadcast_mode_admins = {}
  /\ panel = [shown |-> Report(<<>>, {}), tested |-> {}, cancelled |-> {},
              broadcast |-> {}, refused |-> {}]

\* The handlers and the database at rest.
InitBot ==
  /\ guarded = GuardedIdle(<<>>, <<>>)
  /\ handled = HandledIdle(None, FALSE, 0, <<"return">>, FALSE)
  /\ users = NoRow
  /\ daily_cards = {}
  /\ flow = [k \in Flows |-> FlowIdle]
  /\ granted = [l \in Limits |-> 0]
  /\ requested = [l \in Limits |-> 0]
  /\ InitPanel

\* ---------------------------------------------------------------- Init
InitDispatcher(cfg, env) ==
  /\ max_tasks = cfg.max_tasks
  /\ req_per_sec = cfg.req_per_sec
  /\ req_per_hour = cfg.req_per_hour
  /\ queue = <<>>
  /\ unfinished_tasks = 0
  /\ semaphore = cfg.max_tasks
  /\ level_sec = 0
  /\ level_hour = 0
  /\ last_position_update = 0
  /\ active_requests = {}
  /\ worker_task = [pc |-> "queue_get", req |-> NoReq, waited |-> FALSE]
  /\ caller = [r \in Req |-> [pc |-> "idle", current_time |-> 0, run |-> NoRun]]
  /\ future = [r \in Req |-> "none"]
  /\ ptask = [r \in Req |-> "none"]
  /\ outcome = [r \in Req |-> "none"]
  /\ permit = [r \in Req |-> "none"]
  /\ enqueued = <<>>
  /\ launched = <<>>
  /\ clock = [ticks |-> 0, leaps |-> 0]
  /\ budget = env
  /\ shutdown = "running"
  /\ status_updater_task =
        [pc |-> "sleep", wake_at |-> update_interval * TicksPerUnit, run |-> NoRun]
  /\ position_msg_id = [r \in Req |-> Placeholder]
  /\ chat = {}
  /\ finished = [r \in Req |-> [res |-> "none", raised |-> FALSE]]

InitCfg(cfg, env) == InitDispatcher(cfg, env) /\ InitBot

Init ==
  \E cfg \in Configs :
     InitCfg(cfg, [calls |-> MaxCalls, ticks |-> MaxTicks, leaps |-> MaxLeaps,
                   clears |-> MaxClears, overlap |-> MaxCalls,
                   faults |-> {"edit_in_progress"}])

\* RateCalls requests submitted one after another at any times (which request is
\* put first does not matter to the times of admission), for the claims on
\* admission times.
InitRate ==
  \E cfg \in RateConfigs :
     InitCfg(cfg, [calls |-> RateCalls, ticks |-> RateTicks, leaps |-> RateLeaps,
                   clears |-> 0, overlap |-> 1, faults |-> {}])

\* BurstCalls requests submitted one after another to a dispatcher with BurstCalls
\* permits; the sink does not fail and the clock stands still.
InitBurst ==
  \E cfg \in BurstConfigs :
     InitCfg(cfg, [calls |-> BurstCalls, ticks |-> 0, leaps |-> 0, clears |-> 0,
                   overlap |-> 1, faults |-> {}])

\* SeqCalls requests submitted one after another to a dispatcher with one
\* permit; the clock stands still.
InitSeq ==
  \E cfg \in SeqConfigs :
     InitCfg(cfg, [calls |-> SeqCalls, ticks |-> 0, leaps |-> 0, clears |-> 0,
                   overlap |-> 1, faults |-> {"edit_in_progress"}])

\* DripCalls requests on a fresh dispatcher, submitted at SubmitRate per time
\* unit; the clock runs until the last request can have been admitted,
\* DripSlack ticks late at most.
InitDrip ==
  \E cfg \in DripConfigs :
     InitCfg(cfg, [calls |-> DripCalls,
                   ticks |-> (DripCalls - 1) * PeriodSec * TicksPerUnit + DripSlack,
                   leaps |-> 0, clears |-> 0, overlap |-> 1, faults |-> {}])

\* MaxCalls requests submitted one after another, a sink that may fail in
\* every call, and a clock that jumps, for the claims on the notifications.
InitNotify ==
  \E cfg \in Configs :
     InitCfg(cfg, [calls |-> MaxCalls, ticks |-> 0, leaps |-> NotifyLeaps,
                   clears |-> 0, overlap |-> 1,
                   faults |-> {"send_message", "edit_position", "edit_in_progress",
                               "delete_message"}])

\* -------------------------------------------------------------- worker
\* (mutation of QueueGet: the newest request is taken)
QueueGetNewest(q) == q[Len(q)]

\* asyncio.Queue.get on a non-empty queue: popleft.
QueueGet(q) == Head(q)

\* asyncio.Semaphore.acquire with a free permit, and release.
SemaphoreAcquire(v) == v - 1
SemaphoreRelease(v) == v + 1

\* What the dispatcher looks like to the worker.
WorkerView ==
  [queue |-> queue, unfinished_tasks |-> unfinished_tasks, semaphore |-> semaphore,
   level_sec |-> level_sec, level_hour |-> level_hour,
   active_requests |-> active_requests, worker_task |-> worker_task,
   ptask |-> ptask, permit |-> permit, launched |-> launched]

\* The body of `async with ..., self.semaphore:` and the task_done() after it,
\* entered with a free permit: the permit is taken, process_task is scheduled
\* with create_task (it does not run yet), __aexit__ gives the permit back, and
\* task_done() raises ValueError if there is no unfinished task to account for.
Spawn(s) ==
  LET r == s.worker_task.req
      taken == SemaphoreAcquire(s.semaphore)
  IN  [s EXCEPT
         !.semaphore = SemaphoreRelease(taken),
         !.ptask = [@ EXCEPT ![r] = "created"],
         !.permit = [@ EXCEPT ![r] = "released"],
         !.launched = Append(@, [req |-> r, at |-> Elapsed(clock)]),
         !.unfinished_tasks = IF @ <= 0 THEN @ ELSE @ - 1,
         !.worker_task = [@ EXCEPT !.pc = IF s.unfinished_tasks <= 0
                                             THEN "crashed" ELSE "queue_get",
                                   !.req = NoReq]]

\* The worker coroutine from where it stands to its next suspension:
\*   queue.get() suspends on an empty queue, a limiter's acquire() while the
\*   limiter has no capacity, the semaphore's acquire() while no permit is free.
\* Nothing else in the loop yields to the event loop.
RECURSIVE WorkerRun(_)
WorkerRun(s) ==
  LET w == s.worker_task IN
  CASE w.pc = "queue_get" ->
         IF s.queue = <<>> THEN s
         ELSE LET r == QueueGet(s.queue) IN
              WorkerRun([s EXCEPT
                 !.queue = SelectSeq(@, LAMBDA x : x # r),
                 !.active_requests = @ \cup {r},
                 !.worker_task = [@ EXCEPT !.pc = "limiter_sec", !.req = r]])
    [] w.pc = "limiter_sec" ->
         IF has_capacity(s.level_sec, req_per_sec, PeriodSec)
         THEN WorkerRun([s EXCEPT
                 !.level_sec = acquire(@, PeriodSec),
                 !.worker_task = [@ EXCEPT !.pc = "limiter_hour"]])
         ELSE [s EXCEPT !.worker_task = [@ EXCEPT !.waited = TRUE]]
    [] w.pc = "limiter_hour" ->
         IF has_capacity(s.level_hour, req_per_hour, PeriodHour)
         THEN WorkerRun([s EXCEPT
                 !.level_hour = acquire(@, PeriodHour),
                 !.worker_task = [@ EXCEPT !.pc = "semaphore"]])
         ELSE [s EXCEPT !.worker_task = [@ EXCEPT !.waited = TRUE]]
    [] w.pc = "semaphore" ->
         IF s.semaphore > 0
         THEN WorkerRun(Spawn(s))
         ELSE [s EXCEPT !.worker_task = [@ EXCEPT !.waited = TRUE]]
    [] OTHER -> s

\* (mutation of WorkerReady: the worker goes on only when no execution is
\* scheduled or running)
WorkerReadyWhenIdle ==
  /\ \A r \in Req : ptask[r] \in {"none", "done", "cancelled"}
  /\ \/ worker_task.pc = "queue_get" /\ queue # <<>>
     \/ worker_task.pc = "limiter_sec" /\ has_capacity(level_sec, req_per_sec, PeriodSec)
     \/ worker_task.pc = "limiter_hour" /\ has_capacity(level_hour, req_per_hour, PeriodHour)
     \/ worker_task.pc = "semaphore" /\ semaphore > 0

\* What the suspended worker waits for has become available.
WorkerReady ==
  \/ worker_task.pc = "queue_get" /\ queue # <<>>
  \/ worker_task.pc = "limiter_sec" /\ has_capacity(level_sec, req_per_sec, PeriodSec)
  \/ worker_task.pc = "limiter_hour" /\ has_capacity(level_hour, req_per_hour, PeriodHour)
  \/ worker_task.pc = "semaphore" /\ semaphore > 0

\* The event loop resumes the worker.
WorkerWake ==
  /\ shutdown # "done"
  /\ WorkerReady
  /\ LET s == WorkerRun(WorkerView) IN
       /\ queue' = s.queue
       /\ unfinished_tasks' = s.unfinished_tasks
       /\ semaphore' = s.semaphore
       /\ level_sec' = s.level_sec
       /\ level_hour' = s.level_hour
       /\ active_requests' = s.active_requests
       /\ worker_task' = s.worker_task
       /\ ptask' = s.ptask
       /\ permit' = s.permit
       /\ launched' = s.launched
  /\ UNCHANGED <<bot, config, sink, last_position_update, caller, future, outcome, enqueued,
                 clock, budget, shutdown>>

\* --------------------------------------------------------- add_request
\* (mutation of add_request_ready: add_request awaits the result before it returns)
add_request_awaits_result(r) ==
  \/ caller[r].pc = "send_message"
  \/ caller[r].pc = "update_positions" /\ future[r] = "result"

\* What add_request waits for at its two suspension points: the notification
\* sink (bot.send_message, then the edits of update_positions).  It awaits
\* neither the future, nor a limiter, nor the semaphore.
add_request_ready(r) == caller[r].pc \in {"send_message", "update_positions"}

\* A handler calls ask_gpt_in_queue -> add_request, which suspends in
\* bot.send_message.  Requests are numbered in the order of these calls.
AddRequestCall(r) ==
  /\ shutdown # "done"
  /\ caller[r].pc = "idle"
  /\ \A q \in Req : q < r => caller[q].pc # "idle"
  /\ budget.calls > 0
  /\ Cardinality({q \in Req : caller[q].pc = "send_message"}) < budget.overlap
  /\ budget' = [budget EXCEPT !.calls = @ - 1]
  /\ caller' = [caller EXCEPT ![r].pc = "send_message"]
  /\ UNCHANGED <<bot, config, sink, disp, last_position_update, future, outcome, enqueued,
                 clock, shutdown>>

\* bot.send_message returns a message or raises (a placeholder message with
\* message_id=0 is used then); the future and the TaskRequest are made, the
\* request is put in the queue, and either update_positions is entered (it
\* takes its snapshot and suspends in the first edit) or the future is
\* returned.
SendMessageDone(r) ==
  /\ shutdown # "done"
  /\ caller[r].pc = "send_message"
  /\ add_request_ready(r)
  /\ \E res \in SendAnswers :
       /\ position_msg_id' = [position_msg_id EXCEPT ![r] =
                                IF res = "ok" THEN MessageId(r) ELSE Placeholder]
       /\ chat' = IF res = "ok" THEN chat \cup {MessageId(r)} ELSE chat
  /\ future' = [future EXCEPT ![r] = "pending"]
  /\ queue' = Append(queue, r)
  /\ unfinished_tasks' = unfinished_tasks + 1
  /\ enqueued' = Append(enqueued, r)
  /\ caller' = [caller EXCEPT ![r] =
        IF time - last_position_update >= update_interval * TicksPerUnit
        THEN [pc |-> "update_positions", current_time |-> time,
              run |-> StartRun(Append(queue, r))]
        ELSE [pc |-> "await_future", current_time |-> 0, run |-> NoRun]]
  /\ UNCHANGED <<bot, config, semaphore, level_sec, level_hour, last_position_update,
                 active_requests, worker_task, ptask, outcome, permit, launched,
                 clock, budget, shutdown, status_updater_task, finished>>

\* One edit of the update_positions that add_request awaits has ended.  After
\* the last one add_request records the time it read before the pass and
\* returns the future.
EditPositionMessageDone(r) ==
  /\ shutdown # "done"
  /\ caller[r].pc = "update_positions"
  /\ add_request_ready(r)
  /\ LET run == caller[r].run IN
     \E res \in SinkAnswers("edit_position", position_msg_id[run.snapshot[run.idx + 1]]) :
        LET after == EditStep(run, res) IN
        IF RunOver(after)
        THEN /\ last_position_update' = caller[r].current_time
             /\ caller' = [caller EXCEPT ![r] =
                   [pc |-> "await_future", current_time |-> 0, run |-> after]]
        ELSE /\ caller' = [caller EXCEPT ![r].run = after]
             /\ UNCHANGED last_position_update
  /\ UNCHANGED <<bot, config, sink, disp, future, outcome, enqueued, clock, budget, shutdown>>

\* ----------------------------------------------- periodic_status_update
\* asyncio.sleep(self.update_interval) is over: the next pass of
\* update_positions takes its snapshot; with an empty queue the pass is over
\* at once and the task sleeps again.
StatusUpdaterWake ==
  /\ shutdown # "done"
  /\ status_updater_task.pc = "sleep"
  /\ Elapsed(clock) >= status_updater_task.wake_at
  /\ status_updater_task' =
        IF queue = <<>>
        THEN [pc |-> "sleep", wake_at |-> Elapsed(clock) + update_interval * TicksPerUnit,
              run |-> StartRun(queue)]
        ELSE [pc |-> "update_positions", wake_at |-> 0, run |-> StartRun(queue)]
  /\ UNCHANGED <<bot, config, disp, last_position_update, caller, future, outcome, enqueued,
                 clock, budget, shutdown, position_msg_id, chat, finished>>

\* The loop of periodic_status_update after a pass: with or without an
\* exception (`except Exception` logs it) it sleeps update_interval.
StatusUpdaterAfterPass(run, now) ==
  [pc |-> "sleep", wake_at |-> now + update_interval * TicksPerUnit, run |-> run]

\* One edit of the periodic pass has ended.
StatusUpdaterEditDone ==
  /\ shutdown # "done"
  /\ status_updater_task.pc = "update_positions"
  /\ LET run == status_updater_task.run IN
     \E res \in SinkAnswers("edit_position", position_msg_id[run.snapshot[run.idx + 1]]) :
        LET after == EditStep(run, res) IN
        status_updater_task' =
           IF RunOver(after) THEN StatusUpdaterAfterPass(after, Elapsed(clock))
           ELSE [status_updater_task EXCEPT !.run = after]
  /\ UNCHANGED <<bot, config, disp, last_position_update, caller, future, outcome, enqueued,
                 clock, budget, shutdown, position_msg_id, chat, finished>>

\* -------------------------------------------------------- process_task
\* How a call of the sink can end.
NotifyResults == {"ok", "TelegramAPIError", "Exception"}
WorkResults == {"returned", "raised"}

\* `finally: self.active_requests.discard(task_request)`
Discard(r) == active_requests \ {r}

\* asyncio runs tasks in the order of their create_task calls.
FirstCreated(r) ==
  \A i, j \in 1..Len(launched) :
     (launched[j].req = r /\ i < j) => ptask[launched[i].req] # "created"

\* The task made by create_task gets its first run: process_task enters the
\* try block and suspends in _notify_in_progress (bot.edit_message_text).
ProcessTaskStart(r) ==
  /\ shutdown # "done"
  /\ ptask[r] = "created"
  /\ FirstCreated(r)
  /\ ptask' = [ptask EXCEPT ![r] = "notify_in_progress"]
  /\ UNCHANGED <<bot, config, sink, queue, unfinished_tasks, semaphore, level_sec, level_hour,
                 last_position_update, active_requests, worker_task, caller, future,
                 outcome, permit, enqueued, launched, clock, budget, shutdown>>

\* _notify_in_progress ends.  It swallows a TelegramAPIError; any other
\* exception reaches `except Exception` of process_task, which logs it, and
\* the finally block: func_to_call is not called and the future is not set.
NotifyInProgressDone(r) ==
  /\ shutdown # "done"
  /\ ptask[r] = "notify_in_progress"
  /\ \E res \in SinkAnswers("edit_in_progress", position_msg_id[r]) :
       IF res = "Exception"
       THEN /\ ptask' = [ptask EXCEPT ![r] = "done"]
            /\ active_requests' = Discard(r)
       ELSE /\ ptask' = [ptask EXCEPT ![r] = "func_to_call"]
            /\ UNCHANGED active_requests
  /\ UNCHANGED <<bot, config, sink, queue, unfinished_tasks, semaphore, level_sec, level_hour,
                 last_position_update, worker_task, caller, future, outcome, permit,
                 enqueued, launched, clock, budget, shutdown>>

\* What `except Exception: logger.exception(...)` of process_task does to the
\* future of the request whose work raised: nothing.
FutureAfterWorkError(f) == f

\* (mutation of WorkerAfterWorkError: the exception ends the admission loop)
WorkerAfterWorkErrorEscapes(w) == [w EXCEPT !.pc = "crashed"]

\* What an exception of func_to_call does to the worker: nothing, process_task
\* is a task of its own and its except clause catches the exception.
WorkerAfterWorkError(w) == w

\* func_to_call ends.  A result is stored with future.set_result (which
\* raises InvalidStateError on a future that is already done) and
\* _notify_finished is awaited; an exception is logged and the finally block
\* runs.
FuncToCallDone(r) ==
  /\ shutdown # "done"
  /\ ptask[r] = "func_to_call"
  /\ \E res \in WorkResults :
       /\ outcome' = [outcome EXCEPT ![r] = res]
       /\ IF res = "returned" /\ future[r] = "pending"
          THEN /\ future' = [future EXCEPT ![r] = "result"]
               /\ ptask' = [ptask EXCEPT ![r] = "notify_finished"]
               /\ UNCHANGED <<active_requests, worker_task>>
          ELSE /\ future' = [future EXCEPT ![r] = FutureAfterWorkError(@)]
               /\ ptask' = [ptask EXCEPT ![r] = "done"]
               /\ active_requests' = Discard(r)
               /\ worker_task' = WorkerAfterWorkError(worker_task)
  /\ UNCHANGED <<bot, config, sink, queue, unfinished_tasks, semaphore, level_sec, level_hour,
                 last_position_update, caller, permit, enqueued, launched, clock,
                 budget, shutdown>>

\* (mutation of notify_finished_raises: _notify_finished catches nothing)
notify_finished_catches_nothing(res) == res # "ok"

\* _notify_finished catches TelegramAPIError only: any other exception of
\* bot.delete_message leaves it.
notify_finished_raises(res) == res \notin {"ok", "TelegramAPIError"}

\* bot.delete_message and with it _notify_finished end; an exception that
\* leaves _notify_finished is logged by process_task; the finally block runs.
NotifyFinishedDone(r) ==
  /\ shutdown # "done"
  /\ ptask[r] = "notify_finished"
  /\ \E res \in SinkAnswers("delete_message", position_msg_id[r]) :
       /\ chat' = IF res = "ok" THEN chat \ {position_msg_id[r]} ELSE chat
       /\ finished' = [finished EXCEPT ![r] =
                         [res |-> res, raised |-> notify_finished_raises(res)]]
  /\ ptask' = [ptask EXCEPT ![r] = "done"]
  /\ active_requests' = Discard(r)
  /\ UNCHANGED <<bot, config, queue, unfinished_tasks, semaphore, level_sec, level_hour,
                 last_position_update, worker_task, caller, future, outcome, permit,
                 enqueued, launched, clock, budget, shutdown, status_updater_task,
                 position_msg_id>>

\* ------------------------------------------------------ clear_gpt_queue
\* The administrator empties queue._queue and lowers _unfinished_tasks.
ClearGptQueue ==
  /\ shutdown # "done"
  /\ budget.clears > 0
  /\ budget' = [budget EXCEPT !.clears = @ - 1]
  /\ queue' = <<>>
  /\ unfinished_tasks' = Max(0, unfinished_tasks - Len(queue))
  /\ UNCHANGED <<bot, config, sink, semaphore, level_sec, level_hour, last_position_update,
                 active_requests, worker_task, caller, future, ptask, outcome, permit,
                 enqueued, launched, clock, shutdown>>

\* --------------------------------------------------------- shutdown_bot
\* (mutation of TaskCancel: the cancellation does not reach the worker)
TaskCancelIgnored(w) == w

\* Task.cancel() on the worker, which is suspended whenever another coroutine
\* runs: CancelledError is raised where it waits (a request it holds is never
\* launched); a task that has already ended on an exception stays as it is.
TaskCancel(w) == IF w.pc = "crashed" THEN w ELSE [w EXCEPT !.pc = "cancelled"]

\* request_dispatcher.worker_task.cancel(); await request_dispatcher.worker_task
ShutdownCancelWorker ==
  /\ shutdown = "running"
  /\ shutdown' = "worker_cancelled"
  /\ worker_task' = TaskCancel(worker_task)
  /\ UNCHANGED <<bot, config, sink, queue, unfinished_tasks, semaphore, level_sec, level_hour,
                 last_position_update, active_requests, caller, future, ptask, outcome,
                 permit, enqueued, launched, clock, budget>>

Running == {"notify_in_progress", "func_to_call", "notify_finished"}

\* Every other task is cancelled and gathered.  A process_task that has
\* started runs its finally block; one that has not started never enters its
\* try block.  A caller is cancelled where it stands; cancelling a task that
\* awaits a future cancels that future.
ShutdownCancelAll ==
  /\ shutdown = "worker_cancelled"
  /\ shutdown' = "done"
  /\ ptask' = [r \in Req |->
                 IF ptask[r] \in Running \cup {"created"} THEN "cancelled" ELSE ptask[r]]
  /\ active_requests' = {r \in active_requests : ptask[r] \notin Running}
  /\ caller' = [r \in Req |->
                 IF caller[r].pc \in {"send_message", "update_positions", "await_future"}
                 THEN [pc |-> "cancelled", current_time |-> 0, run |-> NoRun]
                 ELSE caller[r]]
  /\ status_updater_task' = [pc |-> "cancelled", wake_at |-> 0, run |-> NoRun]
  /\ future' = [r \in Req |->
                 IF caller[r].pc = "await_future" /\ future[r] = "pending"
                 THEN "cancelled" ELSE future[r]]
  /\ UNCHANGED <<bot, config, position_msg_id, chat, finished, queue, unfinished_tasks, semaphore, level_sec, level_hour,
                 last_position_update, worker_task, outcome, permit, enqueued,
                 launched, clock, budget>>

\* ---------------------------------------------------------------- time
\* d ticks pass: both limiters leak.
Pass(d) ==
  /\ level_sec' = Leak(level_sec, req_per_sec, d)
  /\ level_hour' = Leak(level_hour, req_per_hour, d)

Tick ==
  /\ shutdown # "done"
  /\ budget.ticks > 0
  /\ budget' = [budget EXCEPT !.ticks = @ - 1]
  /\ clock' = [clock EXCEPT !.ticks = @ + 1]
  /\ Pass(1)
  /\ UNCHANGED <<bot, config, sink, queue, unfinished_tasks, semaphore, last_position_update,
                 active_requests, worker_task, caller, future, ptask, outcome, permit,
                 enqueued, launched, shutdown>>

Leap ==
  /\ shutdown # "done"
  /\ budget.leaps > 0
  /\ budget' = [budget EXCEPT !.leaps = @ - 1]
  /\ clock' = [clock EXCEPT !.leaps = @ + 1]
  /\ Pass(LeapTicks)
  /\ UNCHANGED <<bot, config, sink, queue, unfinished_tasks, semaphore, last_position_update,
                 active_requests, worker_task, caller, future, ptask, outcome, permit,
                 enqueued, launched, shutdown>>

\* -------------------------------------------------------- specification
Next ==
  \/ \E r \in Req : AddRequestCall(r)
  \/ \E r \in Req : SendMessageDone(r)
  \/ \E r \in Req : EditPositionMessageDone(r)
  \/ WorkerWake
  \/ \E r \in Req : ProcessTaskStart(r)
  \/ \E r \in Req : NotifyInProgressDone(r)
  \/ \E r \in Req : FuncToCallDone(r)
  \/ \E r \in Req : NotifyFinishedDone(r)
  \/ ClearGptQueue
  \/ ShutdownCancelWorker
  \/ ShutdownCancelAll
  \/ Tick
  \/ Leap

Spec == Init /\ [][Next]_vars

\* Admission alone: the submissions, the worker and the clock.  The steps left
\* out write neither the limiters nor the clock: process_task and the return of
\* add_request do not touch the queue, clear_gpt_queue and shutdown_bot only
\* take requests away from the worker.
NextRate ==
  \/ \E r \in Req : AddRequestCall(r)
  \/ \E r \in Req : SendMessageDone(r)
  \/ WorkerWake
  \/ Tick
  \/ Leap

SpecRate == InitRate /\ [][NextRate]_vars

\* A burst of submissions whose works never end: the steps up to the work call.
NextBurst ==
  \/ \E r \in Req : AddRequestCall(r)
  \/ \E r \in Req : SendMessageDone(r)
  \/ \E r \in Req : EditPositionMessageDone(r)
  \/ WorkerWake
  \/ \E r \in Req : ProcessTaskStart(r)
  \/ \E r \in Req : NotifyInProgressDone(r)

SpecBurst == InitBurst /\ [][NextBurst]_vars

\* Submissions and executions, works of any duration, without the clock and
\* without the administrator.
NextSeq ==
  \/ \E r \in Req : AddRequestCall(r)
  \/ \E r \in Req : SendMessageDone(r)
  \/ \E r \in Req : EditPositionMessageDone(r)
  \/ WorkerWake
  \/ \E r \in Req : ProcessTaskStart(r)
  \/ \E r \in Req : NotifyInProgressDone(r)
  \/ \E r \in Req : FuncToCallDone(r)
  \/ \E r \in Req : NotifyFinishedDone(r)

SpecSeq == InitSeq /\ [][NextSeq]_vars

\* The notifications: submissions, the two broadcasters, the executions and
\* a clock that jumps.  periodic_status_update reads the queue and writes
\* nothing but the sink, which is why the other specifications leave it out.
NextNotify ==
  \/ \E r \in Req : AddRequestCall(r)
  \/ \E r \in Req : SendMessageDone(r)
  \/ \E r \in Req : EditPositionMessageDone(r)
  \/ StatusUpdaterWake
  \/ StatusUpdaterEditDone
  \/ WorkerWake
  \/ \E r \in Req : ProcessTaskStart(r)
  \/ \E r \in Req : NotifyInProgressDone(r)
  \/ \E r \in Req : FuncToCallDone(r)
  \/ \E r \in Req : NotifyFinishedDone(r)
  \/ Leap

SpecNotify == InitNotify /\ [][NextNotify]_vars

\* ------------------------------------------------------------ show_queue
\* (mutation of after_list: the requests listed are taken out of the queue)
after_drain(q) == <<>>

\* list(request_dispatcher.queue._queue) copies the deque and leaves it as it
\* is.
after_list(q) == q

\* An administrator asks for the state of the queue: show_queue reads
\* qsize(), len(active_requests) and a copy of the queue in one run, and
\* puts them in its message.
ShowQueue ==
  /\ shutdown # "done"
  /\ panel.shown # Report(queue, active_requests)
  /\ panel' = [panel EXCEPT !.shown = Report(queue, active_requests)]
  /\ queue' = after_list(queue)
  /\ UNCHANGED <<config, sink, unfinished_tasks, semaphore, level_sec, level_hour,
                 last_position_update, active_requests, worker_task, caller, future,
                 ptask, outcome, permit, enqueued, launched, clock, budget, shutdown,
                 guarded, handled, users, daily_cards, flow, granted, requested,
                 broadcast_mode_admins>>

\* MaxCalls requests submitted one after another, position edits that may
\* fail, a clock that jumps and an administrator who looks at the queue.
InitView ==
  \E cfg \in Configs :
     InitCfg(cfg, [calls |-> MaxCalls, ticks |-> 0, leaps |-> ViewLeaps, clears |-> 0,
                   overlap |-> 1, faults |-> {"edit_position"}])

NextView == NextNotify \/ ShowQueue

SpecView == InitView /\ [][NextView]_vars

Pushes ==
  [req : Req, pos : 0..NReq, total : 0..NReq]

RunOK(run) ==
  /\ run.snapshot \in Seq(Req)
  /\ run.idx \in 0..Len(run.snapshot)
  /\ run.pushes \in Seq(Pushes)
  /\ run.failed \in BOOLEAN

\* The tick at which the r-th request of SpecDrip is submitted.
Due(r) == ((r - 1) * TicksPerUnit) \div SubmitRate

\* A handler calls add_request when the request is due.
DripCall(r) == AddRequestCall(r) /\ Elapsed(clock) = Due(r)

\* Time passes once add_request has returned for the requests that are due
\* (the sink answers at once), and, while the worker can run, only as long as
\* it is less than DripSlack ticks behind the earliest time req_per_sec = 1
\* allows for its next launch.
DripTick ==
  /\ \A r \in Req :
        (r <= DripCalls /\ Due(r) <= Elapsed(clock))
           => caller[r].pc \notin {"idle", "send_message", "update_positions"}
  /\ WorkerReady
        => Elapsed(clock) < Len(launched) * PeriodSec * TicksPerUnit + DripSlack
  /\ Tick

\* Admission at a steady rate of submissions: the submissions, the worker
\* and the clock.
NextDrip ==
  \/ \E r \in Req : DripCall(r)
  \/ \E r \in Req : SendMessageDone(r)
  \/ \E r \in Req : EditPositionMessageDone(r)
  \/ WorkerWake
  \/ DripTick

SpecDrip == InitDrip /\ [][NextDrip]_vars

TypeOK ==
  /\ status_updater_task.pc \in {"sleep", "update_positions", "cancelled"}
  /\ RunOK(status_updater_task.run)
  /\ chat \subseteq {MessageId(r) : r \in Req}
  /\ queue \in Seq(Req)
  /\ active_requests \subseteq Req
  /\ semaphore \in 0..max_tasks
  /\ unfinished_tasks \in 0..NReq
  /\ level_sec \in 0..(req_per_sec * TokenCost(PeriodSec))
  /\ level_hour \in 0..(req_per_hour * TokenCost(PeriodHour))
  /\ worker_task.pc \in {"queue_get", "limiter_sec", "limiter_hour", "semaphore",
                         "cancelled", "crashed"}
  /\ \A r \in Req :
       /\ caller[r].pc \in {"idle", "send_message", "update_positions", "await_future",
                            "cancelled"}
       /\ future[r] \in {"none", "pending", "result", "cancelled"}
       /\ ptask[r] \in {"none", "created", "notify_in_progress", "func_to_call",
                        "notify_finished", "done", "cancelled"}
       /\ outcome[r] \in {"none", "returned", "raised"}
       /\ permit[r] \in {"none", "released"}
       /\ position_msg_id[r] \in {Placeholder, MessageId(r)}
       /\ finished[r].res \in NotifyResults \cup {"none"}
       /\ RunOK(caller[r].run)

\* ====================================================== admin_required
\* All the variables of the dispatcher and of its notification sink: the
\* handlers below are called without a request being submitted.
dispatcher ==
  <<max_tasks, req_per_sec, req_per_hour, queue, unfinished_tasks, semaphore,
    level_sec, level_hour, last_position_update, active_requests, worker_task,
    caller, future, ptask, outcome, permit, enqueued, launched, clock, budget,
    shutdown, status_updater_task, position_msg_id, chat, finished>>

\* An environment that submits nothing and lets no time pass.
NoBudget ==
  [calls |-> 0, ticks |-> 0, leaps |-> 0, clears |-> 0, overlap |-> 0, faults |-> {}]

\* The index of the first value of seq whose type is in types, 0 if none.
FirstOf(seq, types) ==
  LET I == {i \in 1..Len(seq) : seq[i].type \in types}
  IN IF I = {} THEN 0 ELSE CHOOSE i \in I : \A j \in I : i <= j

\* The two loops that look for user_id: the first Message or CallbackQuery
\* of args, and only if args has none the first one of kwargs.values().
user_id(args, kwargs) ==
  LET i == FirstOf(args, {"Message", "CallbackQuery"})
      j == FirstOf(kwargs, {"Message", "CallbackQuery"})
  IN IF i # 0 THEN args[i].from_user
     ELSE IF j # 0 THEN kwargs[j].from_user
     ELSE NoUser

\* (mutation of is_admin: every user passes)
is_admin_anyone(id) == TRUE

\* `user_id not in ADMIN_IDS`, negated.
is_admin(id) == id \in ADMIN_IDS

\* The object whose answer() carries "no admin rights": the first Message of
\* args, else the first CallbackQuery of args, else the first Message or
\* CallbackQuery of kwargs.values(); Other if there is none.
answerer(args, kwargs) ==
  LET m == FirstOf(args, {"Message"})
      c == FirstOf(args, {"CallbackQuery"})
      k == FirstOf(kwargs, {"Message", "CallbackQuery"})
  IN IF m # 0 THEN args[m]
     ELSE IF c # 0 THEN args[c]
     ELSE IF k # 0 THEN kwargs[k]
     ELSE Other

\* The wrapper of admin_required, from its call to its return.
admin_required(g) ==
  LET id == user_id(g.args, g.kwargs)
      to == answerer(g.args, g.kwargs)
  IN IF id = NoUser THEN [g EXCEPT !.pc = "done", !.func = TRUE]
     ELSE IF ~is_admin(id) /\ to # Other
     THEN [g EXCEPT !.pc = "done",
                    !.answer = [to |-> to, show_alert |-> to.type = "CallbackQuery"]]
     ELSE [g EXCEPT !.pc = "done", !.func = TRUE]

\* A handler wrapped in admin_required is called.
AdminRequiredCall ==
  /\ guarded.pc = "idle"
  /\ guarded' = admin_required(guarded)
  /\ UNCHANGED <<dispatcher, admin, handled, users, daily_cards, flow, granted, requested>>

\* One call of a wrapped handler with any arguments.
InitAdmin ==
  /\ \E cfg \in Configs : InitDispatcher(cfg, NoBudget)
  /\ guarded \in {GuardedIdle(args, kwargs) : args \in ArgLists, kwargs \in ArgLists}
  /\ handled = HandledIdle(None, FALSE, 0, <<"return">>, FALSE)
  /\ users = NoRow
  /\ daily_cards = {}
  /\ flow = [k \in Flows |-> FlowIdle]
  /\ granted = [l \in Limits |-> 0]
  /\ requested = [l \in Limits |-> 0]
  /\ InitPanel

NextAdmin == AdminRequiredCall

SpecAdmin == InitAdmin /\ [][NextAdmin]_vars

\* ======================================================= error_handler
\* isinstance(exc, Exception): what `except Exception` and tenacity's
\* retry_if_exception_type(Exception) match.
is_exception(exc, legacy) ==
  \/ exc \in {"ValueError", "DatabaseError"}
  \/ exc = "CancelledError" /\ legacy

\* (mutation of is_cancellation: a cancellation is handled as any error)
is_cancellation_never(exc) == FALSE

\* isinstance(exc, asyncio.CancelledError)
is_cancellation(exc) == exc = "CancelledError"

\* One await of func: its result, or the exception it raises.
await_func(outcome_i) ==
  IF outcome_i = "return" THEN [kind |-> "return", value |-> "result"]
  ELSE [kind |-> "raise", value |-> outcome_i]

\* The function under tenacity's retry(stop_after_attempt(retries),
\* retry_if_exception_type(Exception), reraise=True), from attempt i on: an
\* Exception is retried until the attempts are used up and then raised again,
\* anything else ends the call.
RECURSIVE wrapped(_, _)
wrapped(h, i) ==
  LET res == await_func(h.outcomes[i])
  IN IF res.kind = "raise" /\ is_exception(res.value, h.legacy) /\ i < h.retries
     THEN wrapped(h, i + 1)
     ELSE res

\* The number of times func is awaited under tenacity, from attempt i on:
\* stop_after_attempt(retries) ends the retrying with the attempt number
\* retries.
RECURSIVE attempts_made(_, _)
attempts_made(h, i) ==
  LET res == await_func(h.outcomes[i])
  IN IF res.kind = "raise" /\ is_exception(res.value, h.legacy) /\ i < h.retries
     THEN attempts_made(h, i + 1)
     ELSE i

\* How often func is awaited in one call of the wrapper.
calls_made(h) == IF h.retries > 0 THEN attempts_made(h, 1) ELSE 1

\* The try block of the wrapper.
try_block(h) == IF h.retries > 0 THEN wrapped(h, 1) ELSE await_func(h.outcomes[1])

\* The wrapper of error_handler: `except Exception` re-raises a cancellation,
\* and otherwise re-raises if re_raise and returns default_return if not;
\* what is not an Exception leaves the wrapper as raised.
error_handler(h) ==
  LET res == try_block(h)
  IN IF res.kind = "raise" /\ is_exception(res.value, h.legacy)
     THEN IF is_cancellation(res.value) THEN res
          ELSE IF h.re_raise THEN res
          ELSE [kind |-> "return", value |-> h.default_return]
     ELSE res

\* A function wrapped by error_handler is called and the call ends.
ErrorHandlerCall ==
  /\ handled.pc = "idle"
  /\ handled' = [handled EXCEPT !.pc = "done", !.result = error_handler(handled),
                                !.calls = calls_made(handled)]
  /\ UNCHANGED <<dispatcher, admin, guarded, users, daily_cards, flow, granted, requested>>

\* The values of default_return in the program, and the attempts a call can
\* make.
DefaultReturns == {None, "False"}
Attempts(retries) == IF retries = 0 THEN 1 ELSE retries

\* One call of a wrapped function, for every decoration and every way the
\* function can end in each attempt.
InitErrors ==
  /\ \E cfg \in Configs : InitDispatcher(cfg, NoBudget)
  /\ guarded = GuardedIdle(<<>>, <<>>)
  /\ handled \in UNION { { HandledIdle(d, rr, n, o, legacy) :
                              d \in DefaultReturns, rr \in BOOLEAN, legacy \in BOOLEAN,
                              o \in [1..Attempts(n) -> FuncOutcomes] } : n \in 0..MaxRetries }
  /\ users = NoRow
  /\ daily_cards = {}
  /\ flow = [k \in Flows |-> FlowIdle]
  /\ granted = [l \in Limits |-> 0]
  /\ requested = [l \in Limits |-> 0]
  /\ InitPanel

NextErrors == ErrorHandlerCall

SpecErrors == InitErrors /\ [][NextErrors]_vars

\* ======================================= subscription limits (database)
\* The handlers of one user's updates: fallback_handler (a question),
\* confirm_card_generation (a daily card) and spread_input_handler (the last
\* card of a spread), with the database functions they await.  Every
\* db.execute is one step; coroutines interleave between them.  aiosqlite
\* runs the statements in the order in which they were issued; here the
\* waiting statements of different coroutines are run in any order, which
\* includes that one.
Goto(k, pc) == flow' = [flow EXCEPT ![k].pc = pc]
Count(c, l) == [c EXCEPT ![l] = @ + 1]
LimitOf(f) == <<f.kind, f.deck>>

\* The message of flow k's callback was deleted by another handler.
Deleted(k) ==
  \E j \in Flows \ {k} :
     /\ flow[j].kind = "card"
     /\ flow[j].message = flow[k].message
     /\ flow[j].pc \notin {"idle", "delete_message", "failed"}

\* user_id in pending_spreads: no handler has run `del pending_spreads[user_id]`.
pending_spreads ==
  \A j \in Flows :
     flow[j].kind = "spread" => flow[j].pc \notin {"accepted", "generation", "done",
                                                   "denied", "failed"}

\* An update arrives and its handler runs to its first database call:
\* refresh_subscription_status, awaited first by can_ask_question,
\* can_choose_daily_card and can_do_spread.  confirm_card_generation first
\* deletes the message of the callback.
FlowCall(k) ==
  /\ flow[k].pc = "idle"
  /\ \A j \in Flows : j < k => flow[j].pc # "idle"
  /\ \/ /\ flow[k].kind = "question"
        /\ Goto(k, "refresh_select")
     \/ /\ flow[k].kind = "spread"
        /\ pending_spreads
        /\ Goto(k, "refresh_select")
     \/ /\ flow[k].kind = "card"
        /\ \E d \in Decks, m \in Menus :
              flow' = [flow EXCEPT ![k].pc = "delete_message", ![k].deck = d,
                                   ![k].message = m]
  /\ UNCHANGED <<dispatcher, admin, guarded, handled, users, daily_cards, granted, requested>>

\* bot.delete_message ends: it raises if the message is gone, and
\* error_handler ends the handler.
DeleteMessageDone(k) ==
  /\ flow[k].pc = "delete_message"
  /\ IF Deleted(k) THEN Goto(k, "failed") ELSE Goto(k, "refresh_select")
  /\ UNCHANGED <<dispatcher, admin, guarded, handled, users, daily_cards, granted, requested>>

\* (mutation of outdated: no subscription is ever past its end)
outdated_never(end_date) == FALSE

\* today > end_date
outdated(end_date) == Today > end_date

\* refresh_subscription_status, after its SELECT: whether the UPDATE follows.
refresh_needed(row) ==
  /\ row # NoRow
  /\ row.subscription_end # NoDate
  /\ row.subscription_status # "expired"
  /\ outdated(row.subscription_end)

\* refresh_subscription_status: SELECT subscription_status, subscription_end.
RefreshSelect(k) ==
  /\ flow[k].pc = "refresh_select"
  /\ IF refresh_needed(users) THEN Goto(k, "refresh_update") ELSE Goto(k, "select_status")
  /\ UNCHANGED <<dispatcher, admin, guarded, handled, users, daily_cards, granted, requested>>

\* refresh_subscription_status: UPDATE users SET subscription_status='expired'.
RefreshUpdate(k) ==
  /\ flow[k].pc = "refresh_update"
  /\ users' = IF users = NoRow THEN users
              ELSE [users EXCEPT !.subscription_status = "expired"]
  /\ Goto(k, "select_status")
  /\ UNCHANGED <<dispatcher, admin, guarded, handled, daily_cards, granted, requested>>

\* `if not row: return False` and `if sub_status != "premium": return False`
premium(row) == row # NoRow /\ row.subscription_status = "premium"

\* SELECT subscription_status of can_ask_question, can_choose_daily_card and
\* can_do_spread; on False the handler answers and returns.
SelectStatus(k) ==
  /\ flow[k].pc = "select_status"
  /\ IF ~premium(users) THEN Goto(k, "denied")
     ELSE CASE flow[k].kind = "question" -> Goto(k, "update_questions")
            [] flow[k].kind = "card" -> Goto(k, "select_daily_cards")
            [] flow[k].kind = "spread" -> Goto(k, "select_spreads")
  /\ UNCHANGED <<dispatcher, admin, guarded, handled, users, daily_cards, granted, requested>>

\* can_ask_question: UPDATE questions_count = questions_count + 1,
\* questions_date = today, and `return True`; fallback_handler then calls
\* ask_gpt_in_queue.
UpdateQuestions(k) ==
  /\ flow[k].pc = "update_questions"
  /\ users' = IF users = NoRow THEN users
              ELSE [users EXCEPT !.questions_count = @ + 1, !.questions_date = Today]
  /\ granted' = Count(granted, LimitOf(flow[k]))
  /\ requested' = Count(requested, LimitOf(flow[k]))
  /\ Goto(k, "generation")
  /\ UNCHANGED <<dispatcher, admin, guarded, handled, daily_cards>>

\* can_choose_daily_card: SELECT COUNT(*) FROM daily_cards of the deck and of
\* today, `return used_deck_today == 0`; on True confirm_card_generation
\* awaits get_random_card.
SelectDailyCards(k) ==
  /\ flow[k].pc = "select_daily_cards"
  /\ LET used_deck_today ==
           Cardinality({c \in daily_cards : c.card_deck = flow[k].deck /\ c.date = Today})
     IN IF used_deck_today = 0
        THEN /\ granted' = Count(granted, LimitOf(flow[k]))
             /\ Goto(k, "get_random_card")
        ELSE /\ Goto(k, "denied")
             /\ UNCHANGED granted
  /\ UNCHANGED <<dispatcher, admin, guarded, handled, users, daily_cards, requested>>

\* get_random_card ends and confirm_card_generation calls ask_gpt_in_queue.
GetRandomCardDone(k) ==
  /\ flow[k].pc = "get_random_card"
  /\ requested' = Count(requested, LimitOf(flow[k]))
  /\ Goto(k, "generation")
  /\ UNCHANGED <<dispatcher, admin, guarded, handled, users, daily_cards, granted>>

\* `if spreads_count >= limit: return False`, on the values read by the SELECT.
spreads_left(spreads_count) == spreads_count < limit

\* can_do_spread: SELECT spreads_count, spreads_date.
SelectSpreads(k) ==
  /\ flow[k].pc = "select_spreads"
  /\ IF users = NoRow THEN Goto(k, "denied")
     ELSE LET read == [flow[k] EXCEPT !.spreads_count = users.spreads_count,
                                      !.spreads_date = users.spreads_date]
          IN IF read.spreads_date # Today
             THEN flow' = [flow EXCEPT ![k] = [read EXCEPT !.pc = "reset_spreads"]]
             ELSE IF spreads_left(read.spreads_count)
             THEN flow' = [flow EXCEPT ![k] = [read EXCEPT !.pc = "update_spreads"]]
             ELSE flow' = [flow EXCEPT ![k] = [read EXCEPT !.pc = "denied"]]
  /\ UNCHANGED <<dispatcher, admin, guarded, handled, users, daily_cards, granted, requested>>

\* can_do_spread: UPDATE spreads_count=0, spreads_date=today; the limit is
\* then tested on the spreads_count read before.
ResetSpreads(k) ==
  /\ flow[k].pc = "reset_spreads"
  /\ users' = IF users = NoRow THEN users
              ELSE [users EXCEPT !.spreads_count = 0, !.spreads_date = Today]
  /\ IF spreads_left(flow[k].spreads_count)
     THEN Goto(k, "update_spreads")
     ELSE Goto(k, "denied")
  /\ UNCHANGED <<dispatcher, admin, guarded, handled, daily_cards, granted, requested>>

\* can_do_spread: UPDATE spreads_count = spreads_count + 1 and `return True`;
\* spread_input_handler then runs `del pending_spreads[user_id]`, which
\* raises KeyError if another handler has done so, and awaits
\* message.answer.
UpdateSpreads(k) ==
  /\ flow[k].pc = "update_spreads"
  /\ users' = IF users = NoRow THEN users ELSE [users EXCEPT !.spreads_count = @ + 1]
  /\ granted' = Count(granted, LimitOf(flow[k]))
  /\ IF pending_spreads THEN Goto(k, "accepted") ELSE Goto(k, "failed")
  /\ UNCHANGED <<dispatcher, admin, guarded, handled, daily_cards, requested>>

\* message.answer ends and spread_input_handler calls ask_gpt_in_queue.
SpreadAccepted(k) ==
  /\ flow[k].pc = "accepted"
  /\ requested' = Count(requested, LimitOf(flow[k]))
  /\ Goto(k, "generation")
  /\ UNCHANGED <<dispatcher, admin, guarded, handled, users, daily_cards, granted>>

\* ask_gpt_in_queue returns.  confirm_card_generation then awaits
\* mark_daily_card: INSERT OR IGNORE INTO daily_cards.
GenerationDone(k) ==
  /\ flow[k].pc = "generation"
  /\ daily_cards' = IF flow[k].kind = "card"
                    THEN daily_cards \cup {[card_deck |-> flow[k].deck, date |-> Today]}
                    ELSE daily_cards
  /\ Goto(k, "done")
  /\ UNCHANGED <<dispatcher, admin, guarded, handled, users, granted, requested>>

\* The rows a user can have: of a question scenario, of a spread scenario, of
\* a daily card scenario; a counter is 0, one below the limit, or at it, and
\* was written today or the day before.
StartCounts == {0, limit - 1, limit}
Subscriptions ==
  [subscription_status : {"premium", "expired"}, subscription_end : Days \cup {NoDate}]
Row(sub, qc, qd, sc, sd) ==
  [subscription_status |-> sub.subscription_status,
   subscription_end |-> sub.subscription_end,
   questions_count |-> qc, questions_date |-> qd,
   spreads_count |-> sc, spreads_date |-> sd]
QuestionRows ==
  {Row(sub, c, d, 0, NoDate) : sub \in Subscriptions, c \in StartCounts, d \in {Today - 1, Today}}
SpreadRows ==
  {Row(sub, 0, NoDate, c, d) : sub \in Subscriptions, c \in StartCounts, d \in {Today - 1, Today}}
CardRows == {Row(sub, 0, NoDate, 0, NoDate) : sub \in Subscriptions}

\* What the user was granted today before the behaviour starts, as the
\* database records it.
GrantedBefore(row, cards) ==
  [l \in Limits |->
     CASE l[1] = "question" -> IF row.questions_date = Today THEN row.questions_count ELSE 0
       [] l[1] = "spread" -> IF row.spreads_date = Today THEN row.spreads_count ELSE 0
       [] l[1] = "card" -> Cardinality({c \in cards : c.card_deck = l[2] /\ c.date = Today})]

\* FlowCalls updates of one kind from one user, on any day of the user's
\* subscription.
InitLimits ==
  /\ \E cfg \in Configs : InitDispatcher(cfg, NoBudget)
  /\ guarded = GuardedIdle(<<>>, <<>>)
  /\ handled = HandledIdle(None, FALSE, 0, <<"return">>, FALSE)
  /\ \E kind \in {"question", "card", "spread"} :
        /\ flow = [k \in Flows |-> [FlowIdle EXCEPT !.kind = kind]]
        /\ users \in {NoRow} \cup (CASE kind = "question" -> QuestionRows
                                    [] kind = "spread" -> SpreadRows
                                    [] kind = "card" -> CardRows)
        /\ daily_cards \in IF kind = "card"
                           THEN SUBSET [card_deck : Decks, date : {Today}]
                           ELSE {{}}
  /\ granted = GrantedBefore(users, daily_cards)
  /\ requested = [l \in Limits |-> 0]
  /\ InitPanel

NextLimits ==
  \E k \in Flows :
     \/ FlowCall(k)
     \/ DeleteMessageDone(k)
     \/ RefreshSelect(k)
     \/ RefreshUpdate(k)
     \/ SelectStatus(k)
     \/ UpdateQuestions(k)
     \/ SelectDailyCards(k)
     \/ GetRandomCardDone(k)
     \/ SelectSpreads(k)
     \/ ResetSpreads(k)
     \/ UpdateSpreads(k)
     \/ SpreadAccepted(k)
     \/ GenerationDone(k)

SpecLimits == InitLimits /\ [][NextLimits]_vars

\* ============================================ successful_payment_handler
\* The handler of a successful payment, statement by statement, next to the
\* can_* calls of the same user.
\* new_end_date: 30 days after the current end if that is later than today,
\* else 30 days after today.
new_end_date(current_end_date) ==
  IF current_end_date # NoDate /\ current_end_date > Today
  THEN current_end_date + SubscriptionDays
  ELSE Today + SubscriptionDays

\* The update of a successful payment arrives: the handler runs to its
\* SELECT subscription_end.
PaymentCall(k) ==
  /\ flow[k].pc = "idle"
  /\ flow[k].kind = "payment"
  /\ \A j \in Flows : j < k => flow[j].pc # "idle"
  /\ Goto(k, "select_end")
  /\ UNCHANGED <<dispatcher, admin, guarded, handled, users, daily_cards, granted, requested>>

\* SELECT subscription_end; the new end date is computed from it, and
\* set_subscription_status is awaited.
SelectEnd(k) ==
  /\ flow[k].pc = "select_end"
  /\ flow' = [flow EXCEPT ![k].pc = "set_subscription_status",
                          ![k].subscription_end_date = new_end_date(users.subscription_end)]
  /\ UNCHANGED <<dispatcher, admin, guarded, handled, users, daily_cards, granted, requested>>

\* set_subscription_status(telegram_id, "premium"): UPDATE users SET
\* subscription_status; then extend_subscription is awaited.
SetSubscriptionStatus(k) ==
  /\ flow[k].pc = "set_subscription_status"
  /\ users' = IF users = NoRow THEN users
              ELSE [users EXCEPT !.subscription_status = "premium"]
  /\ Goto(k, "extend_subscription")
  /\ UNCHANGED <<dispatcher, admin, guarded, handled, daily_cards, granted, requested>>

\* extend_subscription(telegram_id, subscription_end_date): UPDATE users SET
\* subscription_end.  The rest of the handler saves the transaction and
\* thanks the user: it does not write table users.
ExtendSubscription(k) ==
  /\ flow[k].pc = "extend_subscription"
  /\ users' = IF users = NoRow THEN users
              ELSE [users EXCEPT !.subscription_end = flow[k].subscription_end_date]
  /\ Goto(k, "paid")
  /\ UNCHANGED <<dispatcher, admin, guarded, handled, daily_cards, granted, requested>>

\* The kinds of the updates of one behaviour: one payment, the others calls
\* of one can_* function.
PaymentKinds ==
  {ks \in [Flows -> {"payment", "question", "card", "spread"}] :
      /\ Cardinality({k \in Flows : ks[k] = "payment"}) = 1
      /\ \A j, k \in Flows : (ks[j] # "payment" /\ ks[k] # "payment") => ks[j] = ks[k]}

\* A registered user pays while other updates of the same user are handled.
InitPay ==
  /\ \E cfg \in Configs : InitDispatcher(cfg, NoBudget)
  /\ guarded = GuardedIdle(<<>>, <<>>)
  /\ handled = HandledIdle(None, FALSE, 0, <<"return">>, FALSE)
  /\ \E ks \in PaymentKinds :
        /\ flow = [k \in Flows |-> [FlowIdle EXCEPT !.kind = ks[k]]]
        /\ users \in (IF "question" \in {ks[k] : k \in Flows} THEN QuestionRows
                      ELSE IF "spread" \in {ks[k] : k \in Flows} THEN SpreadRows
                      ELSE CardRows)
  /\ daily_cards = {}
  /\ granted = GrantedBefore(users, daily_cards)
  /\ requested = [l \in Limits |-> 0]
  /\ InitPanel

NextPay ==
  \/ \E k \in Flows : PaymentCall(k)
  \/ \E k \in Flows : SelectEnd(k)
  \/ \E k \in Flows : SetSubscriptionStatus(k)
  \/ \E k \in Flows : ExtendSubscription(k)
  \/ NextLimits

SpecPay == InitPay /\ [][NextPay]_vars

\* ================================================ administration panel
\* Whether a handler decorated with admin_required runs its body for the
\* callback query of a button pressed by user u.
Admitted(u) ==
  admin_required(GuardedIdle(<<[type |-> "CallbackQuery", from_user |-> u]>>, <<>>)).func

\* The requests of the ask_gpt_in_queue tasks that the next load test
\* creates: requests are numbered in the order of the calls.
Batch ==
  LET started == Cardinality({r \in Req : caller[r].pc # "idle"})
  IN (started + 1)..(started + TestLoad)

\* run_test_queue_handler, registered for callback data "run_test_queue"
\* and wrapped in error_handler only: it answers the callback, creates the
\* ask_gpt_in_queue tasks and suspends in gather; every task runs up to the
\* bot.send_message of add_request.
RunTestQueue(u) ==
  /\ shutdown # "done"
  /\ budget.calls > 0
  /\ Batch \subseteq Req
  /\ budget' = [budget EXCEPT !.calls = @ - 1]
  /\ caller' = [r \in Req |-> IF r \in Batch
                               THEN [caller[r] EXCEPT !.pc = "send_message"]
                               ELSE caller[r]]
  /\ panel' = [panel EXCEPT !.tested = @ \cup {u}]
  /\ UNCHANGED <<config, sink, disp, last_position_update, future, outcome, enqueued,
                 clock, shutdown, guarded, handled, users, daily_cards, flow,
                 granted, requested, broadcast_mode_admins>>

\* process_admin_callbacks, registered for the callback data that start with
\* "admin_" and wrapped in admin_required, called by a user the wrapper
\* refuses: the wrapper answers "no admin rights" and the body does not run.
AdminRefused(u) ==
  /\ ~Admitted(u)
  /\ u \notin panel.refused
  /\ panel' = [panel EXCEPT !.refused = @ \cup {u}]
  /\ UNCHANGED <<dispatcher, guarded, handled, users, daily_cards, flow, granted,
                 requested, broadcast_mode_admins>>

\* process_admin_callbacks with "admin_broadcast": start_broadcast adds the
\* administrator to broadcast_mode_admins and shows the prompt with the
\* button "cancel and back" (admin_back).
StartBroadcast(u) ==
  /\ Admitted(u)
  /\ u \notin broadcast_mode_admins
  /\ broadcast_mode_admins' = broadcast_mode_admins \cup {u}
  /\ panel' = [panel EXCEPT !.cancelled = @ \ {u}]
  /\ UNCHANGED <<dispatcher, guarded, handled, users, daily_cards, flow, granted,
                 requested>>

\* process_admin_callbacks with "admin_back": the message is edited to the
\* administration menu and the callback is answered.
AdminBack(u) ==
  /\ Admitted(u)
  /\ u \notin panel.cancelled
  /\ panel' = [panel EXCEPT !.cancelled = @ \cup {u}]
  /\ UNCHANGED <<dispatcher, guarded, handled, users, daily_cards, flow, granted,
                 requested, broadcast_mode_admins>>

\* broadcast_handler gets a message of u: a user in broadcast_mode_admins is
\* taken out of it and the message is sent to every user of table users.
\* (For any other user it passes the message on to fallback_handler.)
BroadcastHandler(u) ==
  /\ u \in broadcast_mode_admins
  /\ broadcast_mode_admins' = broadcast_mode_admins \ {u}
  /\ panel' = [panel EXCEPT !.broadcast = @ \cup {u}]
  /\ UNCHANGED <<dispatcher, guarded, handled, users, daily_cards, flow, granted,
                 requested>>

\* Users who press the buttons of the administration panel and send
\* messages, while the dispatcher works on the requests of the load tests.
InitPanelUse ==
  \E cfg \in Configs :
     InitCfg(cfg, [calls |-> PanelTests, ticks |-> 0, leaps |-> PanelLeaps, clears |-> 0,
                   overlap |-> TestLoad, faults |-> {}])

NextPanel ==
  \/ \E u \in Users : RunTestQueue(u)
  \/ \E u \in Users : AdminRefused(u)
  \/ \E u \in Users : StartBroadcast(u)
  \/ \E u \in Users : AdminBack(u)
  \/ \E u \in Users : BroadcastHandler(u)
  \/ \E r \in Req : SendMessageDone(r)
  \/ \E r \in Req : EditPositionMessageDone(r)
  \/ WorkerWake
  \/ \E r \in Req : ProcessTaskStart(r)
  \/ \E r \in Req : NotifyInProgressDone(r)
  \/ \E r \in Req : FuncToCallDone(r)
  \/ \E r \in Req : NotifyFinishedDone(r)
  \/ Leap

SpecPanel == InitPanelUse /\ [][NextPanel]_vars

\* ============================================================== claims
Launched == 1..Len(launched)
InQueue(r) == \E i \in 1..Len(queue) : queue[i] = r
Pos(seq, r) == CHOOSE i \in 1..Len(seq) : seq[i] = r
Executing == {r \in Req : ptask[r] = "func_to_call"}
Settled == {"done", "cancelled"}

\* C1: the number of requests whose work has been started by process_task and
\* has not settled is at most max_tasks, in every reachable state.
C1_ExecutingAtMostMaxTasks == Cardinality(Executing) <= max_tasks

\* C2: the permit taken for a request is given back only after the request's
\* process_task has settled, never while the execution is merely scheduled or
\* still running.
C2_PermitHeldUntilSettled ==
  \A r \in Req : permit[r] = "released" => ptask[r] \in Settled

\* C3: no future is left pending once its request was dequeued and its work
\* has finished or failed: a process_task that has ended after calling the work
\* has resolved the future.
C3_FutureResolvedAfterWork ==
  \A r \in Req : (outcome[r] # "none" /\ ptask[r] = "done") => future[r] # "pending"

\* C4: when the work of a request raised an error, the request's future is
\* rejected with that error.
C4_WorkErrorRejectsFuture ==
  \A r \in Req : outcome[r] = "raised" => future[r] = "exception"

\* C5: an error raised by a request's work never terminates the admission
\* loop: after a work failure the worker has not stopped on an exception, it
\* is stopped only by shutdown_bot, and the request at the head of the queue
\* can still be dequeued and launched.
C5_WorkFailureKeepsWorker ==
  (\E r \in Req : outcome[r] = "raised") =>
     /\ worker_task.pc # "crashed"
     /\ worker_task.pc = "cancelled" => shutdown # "running"
     /\ (worker_task.pc = "queue_get" /\ queue # <<>> /\ shutdown # "done")
           => ENABLED WorkerWake

\* C5 witness: a work has failed, a request is queued behind it and the worker
\* stands ready to take it.
C5_Witness ==
  \E r, q \in Req :
     /\ outcome[r] = "raised"
     /\ queue = <<q>>
     /\ worker_task.pc = "queue_get"
     /\ shutdown = "running"

\* C6: the worker admits in queue order: of two launched requests, the one put
\* in the queue first has its process_task created first, and started first.
C6_AdmissionInQueueOrder ==
  \A i, j \in Launched :
     i < j => /\ Pos(enqueued, launched[i].req) < Pos(enqueued, launched[j].req)
              /\ ptask[launched[i].req] = "created"
                    => ptask[launched[j].req] = "created"

\* C6 witness: two requests were put in the reverse order of their calls and
\* both were launched.
C6_Witness ==
  /\ Len(launched) >= 2
  /\ enqueued[1] = 2
  /\ launched[1].req = 2
  /\ ptask[2] = "func_to_call"

\* C7: while the worker has never had to wait for a limiter or a permit,
\* requests are admitted in the order of their add_request calls (requests are
\* numbered in call order), concurrent calls included.
C7_AdmissionInCallOrder ==
  ~worker_task.waited =>
     \A i, j \in Launched : i < j => launched[i].req < launched[j].req

\* Admissions in the window of `width` ticks that ends with admission i, the
\* window being open at its old end.
AdmissionsWithin(i, width) ==
  Cardinality({j \in Launched : j <= i /\ launched[i].at - launched[j].at < width})

\* C8 as stated: at most req_per_sec admissions in any rolling window of 1 time
\* unit and at most req_per_hour in any rolling window of 3600 time units.
C8_WindowAtMostRate ==
  \A i \in Launched :
     /\ AdmissionsWithin(i, PeriodSec * TicksPerUnit) <= req_per_sec
     /\ AdmissionsWithin(i, PeriodHour * TicksPerUnit) <= req_per_hour

\* C8 as amended.  A bucket of capacity R that refills R tokens per period
\* gives out at most 2R - 1 tokens in any rolling window shorter than the
\* period.  The hour token is taken last, so at most 2 * req_per_hour - 1
\* admissions fall within 3600 time units; the second token may have been
\* taken before the window by a worker that then waited for the hour limiter,
\* so at most 2 * req_per_sec admissions fall within 1 time unit.
C8_WindowAtMostBurstPlusRefill ==
  \A i \in Launched :
     /\ AdmissionsWithin(i, PeriodSec * TicksPerUnit) <= 2 * req_per_sec
     /\ AdmissionsWithin(i, PeriodHour * TicksPerUnit) <= 2 * req_per_hour - 1

\* C8 witness: a window of less than 1 time unit holds more than req_per_sec
\* admissions: the burst the bucket allows and what it refilled since.
C8_Witness ==
  \E i \in Launched :
     /\ req_per_sec >= 2
     /\ AdmissionsWithin(i, PeriodSec * TicksPerUnit) = 2 * req_per_sec - 1

\* C9: a request that was submitted and whose future is not settled is in
\* exactly one of the queue and active_requests.
C9_ExactlyOneCollection ==
  \A r \in Req : future[r] = "pending" => (InQueue(r) # (r \in active_requests))

\* C10: add_request never waits for execution: at each of its suspension
\* points it can go on, whatever the queue, the executions, the limiters and
\* the permits are, and it has returned only after the request was queued.
C10_AddRequestNeverWaitsForExecution ==
  \A r \in Req :
     /\ (shutdown # "done" /\ caller[r].pc \in {"send_message", "update_positions"})
           => ENABLED (SendMessageDone(r) \/ EditPositionMessageDone(r))
     /\ caller[r].pc = "await_future" => \E i \in 1..Len(enqueued) : enqueued[i] = r

\* C10 witness: add_request has returned the future of a request whose work
\* has not started, which the worker holds at an exhausted limiter while the
\* work of another request is running.
C10_Witness ==
  \E r, q \in Req :
     /\ caller[r].pc = "await_future"
     /\ future[r] = "pending"
     /\ worker_task.req = r
     /\ worker_task.pc = "limiter_sec"
     /\ ~has_capacity(level_sec, req_per_sec, PeriodSec)
     /\ ptask[q] = "func_to_call"

\* C11: the admission loop does not wait for a launched execution: in a burst
\* of BurstCalls requests on a dispatcher with BurstCalls permits and limiters that are
\* not exhausted, whose works never end, the worker never suspends at a
\* limiter or at the semaphore, it is ready to take the head of the queue
\* whenever there is one, whatever is executing, and a created process_task
\* can start.
C11_AdmissionNeverWaitsForExecution ==
  /\ ~worker_task.waited
  /\ worker_task.pc \in {"queue_get", "crashed"}
  /\ (worker_task.pc = "queue_get" /\ queue # <<>>) => WorkerReady
  /\ (\E r \in Req : ptask[r] = "created") => \E r \in Req : ENABLED ProcessTaskStart(r)

\* C11 witness: all BurstCalls requests are inside their work call at the same time,
\* none of the works having ended.
C11_Witness ==
  /\ max_tasks = BurstCalls
  /\ Cardinality(Executing) = BurstCalls
  /\ \A r \in Req : outcome[r] = "none"

\* C12: with one permit and three requests submitted one after another (the
\* requests are numbered in that order), no two works overlap, and a request's
\* work has ended only if the work of every request submitted before it has.
C12_SequentialInSubmissionOrder ==
  /\ Cardinality(Executing) <= 1
  /\ \A r, q \in Req : (r < q /\ outcome[q] # "none") => outcome[r] # "none"

\* C13: after shutdown_bot has run, no future of a submitted request is left
\* pending: the futures of the requests still queued, held by the worker or
\* executing have been cancelled.
C13_NoPendingAfterShutdown ==
  shutdown = "done" => \A r \in Req : future[r] # "pending"

\* C14 as stated: once shutdown_bot has cancelled the worker, no request is
\* taken from the queue, no process_task is created, and no process_task
\* starts a work call.
C14_NoWorkStartsAfterWorkerCancel ==
  [][shutdown # "running" =>
        /\ launched' = launched
        /\ worker_task'.req = worker_task.req
        /\ \A r \in Req : ptask[r] # "func_to_call" => ptask'[r] # "func_to_call"]_vars

\* C14 as amended: once shutdown_bot has cancelled the worker, no request
\* leaves the queue for the worker and no process_task is created, although
\* add_request still puts requests in the queue (the queue only grows, or is
\* emptied by clear_gpt_queue); a process_task created earlier may still
\* reach its work call.
C14_NoAdmissionAfterWorkerCancel ==
  [][shutdown # "running" =>
        /\ launched' = launched
        /\ worker_task'.req = worker_task.req
        /\ \A r \in Req : ptask[r] = "none" => ptask'[r] = "none"
        /\ \/ queue' = queue
           \/ queue' = <<>>
           \/ \E r \in Req : queue' = Append(queue, r)]_vars

\* C14 witness: the worker is cancelled, a request that was never launched is
\* in the queue, and the work of a request launched before is running.
C14_Witness ==
  \E r, q \in Req :
     /\ shutdown = "worker_cancelled"
     /\ worker_task.pc = "cancelled"
     /\ InQueue(q)
     /\ ptask[q] = "none"
     /\ ptask[r] = "func_to_call"

\* C17: a failure of the notification sink does not change whether the work
\* of a request is invoked: a process_task that has ended has called the work.
C17_SinkFailureKeepsExecution ==
  \A r \in Req : ptask[r] = "done" => outcome[r] # "none"

\* C18: when the work of a request has ended, with a result or with an error,
\* process_task goes on to _notify_finished (unless shutdown cancels it).
C18_FinishedNotifiedAfterWork ==
  [][\A r \in Req :
        (ptask[r] = "func_to_call" /\ ptask'[r] \notin {"func_to_call", "cancelled"})
           => ptask'[r] = "notify_finished"]_vars

\* C20: when add_request puts a request in an empty queue, it goes on to
\* update_positions in the same call.
C20_EmptyQueueNotifiesDirectly ==
  [][\A r \in Req :
        (/\ caller[r].pc = "send_message"
         /\ caller'[r].pc \notin {"send_message", "cancelled"}
         /\ queue = <<>>)
           => caller'[r].pc = "update_positions"]_vars

\* The passes of update_positions: the one each add_request call made and the
\* current or last one of periodic_status_update.
Runs == {caller[r].run : r \in Req} \cup {status_updater_task.run}

\* C15: a pass of update_positions over a snapshot of N requests pushes to the
\* k-th request of the snapshot 'position k of N', k counted from 1; the
\* snapshot is in the order of the puts; a pass that is over has pushed the
\* positions 1..N, each once.
C15_PositionsOneToN ==
  \A run \in Runs :
     /\ \A i, j \in 1..Len(run.snapshot) :
           i < j => Pos(enqueued, run.snapshot[i]) < Pos(enqueued, run.snapshot[j])
     /\ Len(run.pushes) <= Len(run.snapshot)
     /\ \A k \in 1..Len(run.pushes) :
           run.pushes[k] = [req |-> run.snapshot[k], pos |-> k,
                            total |-> Len(run.snapshot)]
     /\ RunOver(run) =>
           {run.pushes[k].pos : k \in 1..Len(run.pushes)} = 1..Len(run.snapshot)

\* C15 witness: a pass over a snapshot of two requests is over and has pushed
\* twice.
C15_Witness ==
  \E run \in Runs :
     /\ Len(run.snapshot) = 2
     /\ RunOver(run)
     /\ Len(run.pushes) = 2

\* C16: a failed edit does not end a pass of update_positions: every pass
\* issues one edit for each request of its snapshot; and periodic_status_update
\* does not end on a failed pass: it sleeps and starts its next pass when the
\* sleep is over.
C16_FailedEditKeepsBroadcast ==
  /\ \A run \in Runs :
        /\ Len(run.pushes) = run.idx
        /\ RunOver(run) => Len(run.pushes) = Len(run.snapshot)
  /\ status_updater_task.pc \in {"sleep", "update_positions", "cancelled"}
  /\ status_updater_task.pc = "cancelled" => shutdown = "done"
  /\ (/\ status_updater_task.pc = "sleep"
      /\ status_updater_task.run.failed
      /\ Elapsed(clock) >= status_updater_task.wake_at
      /\ shutdown # "done") => ENABLED StatusUpdaterWake

\* C16 witness: the periodic pass over two requests had a failed edit, has
\* pushed to both, and the task sleeps until its next pass.
C16_Witness ==
  /\ status_updater_task.pc = "sleep"
  /\ status_updater_task.run.failed
  /\ Len(status_updater_task.run.snapshot) = 2
  /\ Len(status_updater_task.run.pushes) = 2

\* C19: when bot.delete_message is rejected because the position message
\* does not exist (it was deleted, or it is the placeholder with message id 0),
\* nothing is raised out of _notify_finished; and however _notify_finished
\* ends, the result set in the future stays.
C19_ClearingMissingNotificationIsQuiet ==
  \A r \in Req :
     /\ (finished[r].res = "TelegramAPIError" /\ position_msg_id[r] \notin chat)
           => ~finished[r].raised
     /\ finished[r].res # "none" => future[r] = "result"

\* C19 witness: send_message failed, the request carries the placeholder, its
\* work returned, and the delete of message 0 was rejected and swallowed.
C19_Witness ==
  \E r \in Req :
     /\ position_msg_id[r] = Placeholder
     /\ finished[r].res = "TelegramAPIError"
     /\ ~finished[r].raised
     /\ future[r] = "result"
     /\ ptask[r] = "done"

\* C21: with req_per_sec = 1 and DripCalls = 20 requests submitted at 2 per
\* time unit to a fresh dispatcher, the k-th request admitted is admitted no
\* earlier than k - 1 time units after the first one: the 20th no earlier
\* than 19 time units after the first.
C21_TwentiethAfterNineteenUnits ==
  \A k \in Launched :
     launched[k].at - launched[1].at >= (k - 1) * PeriodSec * TicksPerUnit

\* C21 witness: the 20th request was admitted, exactly 19 time units after
\* the first, with requests still submitted faster than they were admitted.
C21_Witness ==
  /\ req_per_sec = 1
  /\ Len(launched) = DripCalls
  /\ launched[DripCalls].at - launched[1].at = (DripCalls - 1) * PeriodSec * TicksPerUnit
  /\ \A r \in Req : r <= DripCalls => Pos(enqueued, r) = r

\* C22 (as stated): a handler wrapped in admin_required is not invoked when
\* any positional or keyword argument is a Message or CallbackQuery from a
\* user who is not in ADMIN_IDS; the call only gives the answer.
CarriedUsers(g) ==
  {g.args[i].from_user : i \in {i \in 1..Len(g.args) : g.args[i] \in Carriers}}
  \cup {g.kwargs[i].from_user : i \in {i \in 1..Len(g.kwargs) : g.kwargs[i] \in Carriers}}
C22_NoCallForAnyNonAdminCarrier ==
  (guarded.pc = "done" /\ CarriedUsers(guarded) \ ADMIN_IDS # {})
     => (~guarded.func /\ guarded.answer.to \in Carriers)

\* C22 (amended): the user that counts is the one of the first Message or
\* CallbackQuery of the positional arguments followed by the keyword
\* arguments; when that user is not in ADMIN_IDS the handler is not invoked
\* and the call only gives the answer, to a Message or CallbackQuery of the
\* call (with show_alert exactly for a CallbackQuery).
FirstCarrier(g) ==
  LET all == g.args \o g.kwargs
      I == {i \in 1..Len(all) : all[i] \in Carriers}
  IN IF I = {} THEN Other ELSE all[CHOOSE i \in I : \A j \in I : i <= j]
C22_NoCallForFirstNonAdminCarrier ==
  (guarded.pc = "done" /\ FirstCarrier(guarded) # Other
      /\ FirstCarrier(guarded).from_user \notin ADMIN_IDS)
     => /\ ~guarded.func
        /\ guarded.answer.to \in Carriers
        /\ guarded.answer.show_alert = (guarded.answer.to.type = "CallbackQuery")

\* C22 witness: a call whose first argument is a CallbackQuery of a user
\* outside ADMIN_IDS and whose second is a Message of an administrator has
\* returned: the handler was not invoked, the Message was answered.
C22_Witness ==
  /\ guarded.pc = "done"
  /\ Len(guarded.args) = 2
  /\ guarded.args[1].type = "CallbackQuery" /\ guarded.args[1].from_user \notin ADMIN_IDS
  /\ guarded.args[2].type = "Message" /\ guarded.args[2].from_user \in ADMIN_IDS
  /\ ~guarded.func
  /\ guarded.answer.to = guarded.args[2]

\* C23: with retries = 0, when the wrapped function raises an exception that
\* is not a cancellation the wrapper of error_handler returns default_return
\* if re_raise is False and raises the same exception if re_raise is True;
\* when it is cancelled, CancelledError leaves the wrapper, whatever
\* re_raise and default_return are.
C23_ErrorsHandledCancellationPropagates ==
  (handled.pc = "done" /\ handled.retries = 0) =>
     LET exc == handled.outcomes[1] IN
       /\ (exc \in {"ValueError", "DatabaseError"} /\ ~handled.re_raise)
             => handled.result = [kind |-> "return", value |-> handled.default_return]
       /\ (exc \in {"ValueError", "DatabaseError"} /\ handled.re_raise)
             => handled.result = [kind |-> "raise", value |-> exc]
       /\ exc = "CancelledError"
             => handled.result = [kind |-> "raise", value |-> "CancelledError"]

\* C23 witness: a call with retries = 0 and re_raise = False was cancelled on
\* an interpreter where CancelledError is an Exception, and raised
\* CancelledError.
C23_Witness ==
  /\ handled.pc = "done"
  /\ handled.retries = 0
  /\ ~handled.re_raise
  /\ handled.legacy
  /\ handled.outcomes[1] = "CancelledError"
  /\ handled.result.kind = "raise"

\* C24: for one premium user and one calendar day can_do_spread returns True
\* at most 7 times, however the calls interleave at their database
\* operations.
C24_SpreadsAtMostSeven == granted[<<"spread", NoDeck>>] <= limit

\* C25: for one premium user and one calendar day can_ask_question returns
\* True at most 7 times, the limit that subscription_info_text reports.
C25_QuestionsAtMostSeven == granted[<<"question", NoDeck>>] <= QuestionLimit

\* C26: for one user, one deck and one calendar day at most one
\* confirm_card_generation call passes can_choose_daily_card and submits a
\* generation request, however the calls interleave.
C26_OneDailyCardPerDeck ==
  \A d \in Decks : granted[<<"card", d>>] <= 1 /\ requested[<<"card", d>>] <= 1

\* C27: a user whose status is not 'premium', or whose subscription_end is
\* strictly earlier than today, is granted nothing: no can_* call of the user
\* returns True and no handler of the user calls ask_gpt_in_queue; and once
\* a can_* call is past refresh_subscription_status, a user whose
\* subscription_end is earlier than today is not 'premium' any more.
Outdated(row) == row.subscription_end # NoDate /\ row.subscription_end < Today
Entitled(row) == row.subscription_status = "premium" /\ ~Outdated(row)
PastRefresh ==
  {"select_status", "update_questions", "select_daily_cards", "get_random_card",
   "select_spreads", "reset_spreads", "update_spreads", "accepted", "generation",
   "done", "denied"}
WasGranted == {"get_random_card", "accepted", "generation", "done"}
HoldsSec(w) == IF w.pc \in {"limiter_hour", "semaphore"} THEN 1 ELSE 0
HoldsHour(w) == IF w.pc = "semaphore" THEN 1 ELSE 0
LaunchesIn(before, after) == Len(after) - Len(before)
C28_EveryAdmissionTakesBothTokens ==
  /\ [](worker_task.pc \in {"limiter_sec", "limiter_hour"} =>
          /\ worker_task.req # NoReq
          /\ ~InQueue(worker_task.req)
          /\ ptask[worker_task.req] = "none"
          /\ \A i \in Launched : launched[i].req # worker_task.req)
  /\ [][LaunchesIn(launched, launched') > 0 =>
          /\ level_sec' - level_sec =
                (LaunchesIn(launched, launched') + HoldsSec(worker_task')
                   - HoldsSec(worker_task)) * TokenCost(PeriodSec)
          /\ level_hour' - level_hour =
                (LaunchesIn(launched, launched') + HoldsHour(worker_task')
                   - HoldsHour(worker_task)) * TokenCost(PeriodHour)]_vars

\* C28 witness: the worker has waited for a limiter and all RateCalls requests
\* have been launched.
C28_Witness ==
  /\ worker_task.waited
  /\ worker_task.pc = "queue_get"
  /\ Len(launched) = RateCalls

\* C29: a request is in active_requests only after the token pair and the
\* permit were acquired for it, and active_requests never holds more than
\* max_tasks requests.
C29_ActiveOnlyAdmittedAtMostMaxTasks ==
  /\ \A r \in active_requests : ptask[r] # "none"
  /\ Cardinality(active_requests) <= max_tasks

\* C30: the queue and the active set are written only by the worker, by
\* add_request putting a new request, and by process_task settling (also when
\* it is cancelled): every step that changes one of them is such a step.
C30_QueueAndActiveSetWriters ==
  [][(queue' # queue \/ active_requests' # active_requests) =>
        \/ WorkerWake
        \/ \E r \in Req : SendMessageDone(r)
        \/ \E r \in Req : NotifyInProgressDone(r)
        \/ \E r \in Req : FuncToCallDone(r)
        \/ \E r \in Req : NotifyFinishedDone(r)
        \/ ShutdownCancelAll]_vars

\* C31: update_positions (in add_request and in periodic_status_update) and
\* show_queue only read the dispatcher: every step of theirs leaves the
\* queue, the active set, the free permits and every future as they were.
ReadOnlyStep ==
  \/ StatusUpdaterWake
  \/ StatusUpdaterEditDone
  \/ \E r \in Req : EditPositionMessageDone(r)
  \/ ShowQueue
C31_BroadcastAndShowQueueReadOnly ==
  [][ReadOnlyStep => UNCHANGED <<queue, active_requests, semaphore, future>>]_vars

\* C31 witness: show_queue has shown a queue that holds a request, the
\* periodic pass has edited a position message, and the request is still in
\* the queue.
C31_Witness ==
  /\ panel.shown.queued_count > 0
  /\ status_updater_task.run.pushes # <<>>
  /\ queue = panel.shown.snapshot

\* C32: add_request enters update_positions only if at least update_interval
\* has passed since the last broadcast of any kind: never while the periodic
\* pass that last edited position messages ended less than update_interval
\* ago, and never less than update_interval after the out-of-band broadcast
\* recorded in last_position_update.
RecentPeriodicBroadcast ==
  /\ status_updater_task.pc = "sleep"
  /\ status_updater_task.run.pushes # <<>>
  /\ Elapsed(clock) < status_updater_task.wake_at
RecentOutOfBandBroadcast == time - last_position_update < update_interval * TicksPerUnit
C32_OutOfBandOnlyAfterPeriod ==
  [][\A r \in Req :
        (caller[r].pc = "send_message" /\ caller'[r].pc = "update_positions")
           => (~RecentPeriodicBroadcast /\ ~RecentOutOfBandBroadcast)]_vars

\* C33: with retries = n > 0 a function whose every call raises an Exception
\* is called n + 1 times and the error is then handled by default_return and
\* re_raise; the calls stop at the first one that returns, and its result is
\* returned.
Failing(exc) == exc \in {"ValueError", "DatabaseError"}
C33_RetriesAfterFirstCall ==
  (handled.pc = "done" /\ handled.retries > 0) =>
     LET n == handled.retries
         o == handled.outcomes
     IN /\ (\A i \in 1..Len(o) : Failing(o[i])) =>
              /\ handled.calls = n + 1
              /\ handled.result =
                    IF handled.re_raise THEN [kind |-> "raise", value |-> o[Len(o)]]
                    ELSE [kind |-> "return", value |-> handled.default_return]
        /\ (\E i \in 1..Len(o) : o[i] = "return" /\ \A j \in 1..(i - 1) : Failing(o[j])) =>
              /\ handled.result = [kind |-> "return", value |-> "result"]
              /\ o[handled.calls] = "return"

\* C34: a can_do_spread call of a premium user that finds a spreads_date of
\* an earlier day resets the counter and returns True, whatever the counter
\* of that day was: once it is past the reset it is not refused.
FoundEarlierDay(f) == f.kind = "spread" /\ f.spreads_date \notin {NoDate, Today}
C34_FirstSpreadOfDayGranted ==
  \A k \in Flows :
     (FoundEarlierDay(flow[k]) /\ flow[k].pc \notin {"select_spreads", "reset_spreads"})
        => (flow[k].pc # "denied" /\ users.spreads_date = Today)

\* C35: clear_gpt_queue leaves no caller waiting forever: when it has removed
\* the queued requests, the future of each of them is resolved or cancelled.
Removed(r) == InQueue(r) /\ ~InQueue(r)'
C35_ClearedFuturesSettled ==
  [][ClearGptQueue => \A r \in Req : Removed(r) => future'[r] # "pending"]_vars

\* C36: a request that has been notified 'in progress' gets no 'position X
\* of N' update afterwards: no pass of update_positions, whenever it took its
\* snapshot, issues the edit of the position message of such a request.
NotifiedInProgress(r) ==
  /\ ptask[r] = "func_to_call"
  /\ position_msg_id[r] \in chat
  /\ "edit_in_progress" \notin budget.faults
Issues(before, after, r) ==
  /\ after.idx < Len(after.snapshot)
  /\ after.snapshot[after.idx + 1] = r
  /\ after.idx # before.idx \/ after.snapshot # before.snapshot
PositionIssued(r) ==
  \/ Issues(status_updater_task.run, status_updater_task'.run, r)
  \/ \E c \in Req : Issues(caller[c].run, caller'[c].run, r)
C36_NoPositionAfterInProgress ==
  [][\A r \in Req : NotifiedInProgress(r) => ~PositionIssued(r)]_vars

\* C37: the load test is submitted for administrators only: whenever
\* requests of a run_test_queue callback are in the dispatcher, the callback
\* came from a user of ADMIN_IDS.
C37_LoadTestByAdminOnly == enqueued # <<>> => panel.tested \subseteq ADMIN_IDS

\* C39: an administrator who pressed 'cancel and back' after starting the
\* broadcast mode is not in broadcast mode.
C39_CancelLeavesBroadcastMode == panel.cancelled \cap broadcast_mode_admins = {}

\* C38: when successful_payment_handler has made its last update of table
\* users, the user's subscription_status is 'premium' and subscription_end
\* is later than today, whatever the can_* calls of the same user do in
\* between.
PaymentCompletes == \E k \in Flows : flow[k].pc # "paid" /\ flow'[k].pc = "paid"
C38_PaidMeansPremium ==
  [][PaymentCompletes =>
       (users'.subscription_status = "premium" /\ users'.subscription_end > Today)]_vars

====
